---- MODULE Spec2Model ----
(***************************************************************************)
(* Ingestion pipeline of the protocol-guide repository: the three          *)
(* ingestion scripts                                                       *)
(*   santa_clara        data/santa-clara-protocols/import_santa_clara.py    *)
(*   solano_v3          data/solano-protocols/ingest_solano_v3.py           *)
(*   ingest_to_supabase data/solano-protocols/ingest_to_supabase.py         *)
(* each modelled as a run (main) against a shared chunk store.             *)
(*                                                                         *)
(* Text is a sequence of one-character strings; indices and slices follow  *)
(* Python (0-based, end exclusive).  Sizes are scaled down: the scripts'   *)
(* CHUNK_SIZE / CHUNK_OVERLAP / BATCH_SIZE and minimum-length thresholds   *)
(* are replaced by small stand-ins so that documents of a dozen characters *)
(* span several chunks and a run spans several batches.                    *)
(***************************************************************************)
EXTENDS Integers, Sequences, FiniteSets, Bags, TLC

\* ------------------------------------------------------------------------
\* Scaled configuration (bounds of the model)
\* ------------------------------------------------------------------------
ScaledChunkSize == 6      \* stands for CHUNK_SIZE (1200 / 1500 characters)
ScaledOverlap == 1        \* stands for CHUNK_OVERLAP (150 / 200 characters)
ScaledBatch == 2          \* stands for BATCH_SIZE (20 / 10 / 20 chunks)
ScaledMinText == 3        \* stands for the 50 / 100 character text minimum
ScaledMinChunk == 2       \* stands for the 50 character chunk minimum (v3)

INPUT_LIMIT == 16000      \* t[:16000], the embedding provider's input limit

Scripts == {"santa_clara", "solano_v3", "ingest_to_supabase"}

\* ------------------------------------------------------------------------
\* Python string primitives on sequences of characters
\* ------------------------------------------------------------------------
SP == " "
NL == "\n"
CR == "\r"
\* characters str.strip() removes and \s matches
Whitespace == {SP, NL, CR, "\t"}

Min(a, b) == IF a < b THEN a ELSE b
Max(a, b) == IF a > b THEN a ELSE b

\* s[a:b]
PySlice(s, a, b) ==
    LET n == Len(s)
        lo == IF a < 0 THEN Max(n + a, 0) ELSE Min(a, n)
        hi == IF b < 0 THEN Max(n + b, 0) ELSE Min(b, n)
    IN  IF lo >= hi THEN <<>> ELSE SubSeq(s, lo + 1, hi)

\* s.startswith(p)
StartsWith(s, p) == Len(p) <= Len(s) /\ SubSeq(s, 1, Len(p)) = p

\* p occurs in s at 0-based offset k
OccursAt(s, p, k) == k >= 0 /\ k + Len(p) <= Len(s) /\ SubSeq(s, k + 1, k + Len(p)) = p

\* s.rfind(p): highest offset of p in s, -1 when absent
RFind(s, p) ==
    LET hits == {k \in 0..Len(s) : OccursAt(s, p, k)}
    IN  IF hits = {} THEN -1 ELSE CHOOSE k \in hits : \A j \in hits : j <= k

\* p in s
Contains(s, p) == \E k \in 0..Len(s) : OccursAt(s, p, k)

RECURSIVE LStrip(_)
LStrip(s) == IF s # <<>> /\ Head(s) \in Whitespace THEN LStrip(Tail(s)) ELSE s

RECURSIVE RStrip(_)
RStrip(s) ==
    IF s # <<>> /\ s[Len(s)] \in Whitespace THEN RStrip(SubSeq(s, 1, Len(s) - 1)) ELSE s

\* s.strip()
Strip(s) == RStrip(LStrip(s))

\* s.replace(old, new) for a non-empty old: leftmost, non-overlapping
RECURSIVE Replace(_, _, _)
Replace(s, old, new) ==
    IF s = <<>> THEN <<>>
    ELSE IF StartsWith(s, old) THEN new \o Replace(SubSeq(s, Len(old) + 1, Len(s)), old, new)
    ELSE <<Head(s)>> \o Replace(Tail(s), old, new)

\* length of the maximal run of characters of set cs at the head of s
RECURSIVE RunLen(_, _)
RunLen(s, cs) == IF s # <<>> /\ Head(s) \in cs THEN 1 + RunLen(Tail(s), cs) ELSE 0

\* re.sub(r'\n{3,}', '\n\n', s)
RECURSIVE CollapseNewlines(_)
CollapseNewlines(s) ==
    IF s = <<>> THEN <<>>
    ELSE LET r == RunLen(s, {NL})
         IN  IF r >= 3 THEN <<NL, NL>> \o CollapseNewlines(SubSeq(s, r + 1, Len(s)))
             ELSE IF r >= 1 THEN SubSeq(s, 1, r) \o CollapseNewlines(SubSeq(s, r + 1, Len(s)))
             ELSE <<Head(s)>> \o CollapseNewlines(Tail(s))

\* re.sub(r'\s+', ' ', s)
RECURSIVE CollapseWhitespace(_)
CollapseWhitespace(s) ==
    IF s = <<>> THEN <<>>
    ELSE LET r == RunLen(s, Whitespace)
         IN  IF r >= 1 THEN <<SP>> \o CollapseWhitespace(SubSeq(s, r + 1, Len(s)))
             ELSE <<Head(s)>> \o CollapseWhitespace(Tail(s))

\* str(j) for j >= 0
RECURSIVE Digits(_)
Digits(j) ==
    LET d == <<"0", "1", "2", "3", "4", "5", "6", "7", "8", "9">>
    IN  IF j < 10 THEN <<d[j + 1]>> ELSE Digits(j \div 10) \o <<d[(j % 10) + 1]>>

\* ------------------------------------------------------------------------
\* Chunker (chunk_text of the three scripts)
\* ------------------------------------------------------------------------
SentenceSeps == << <<".", SP>>, <<".", NL>>, <<"?", SP>>, <<"!", SP>> >>
ParaSep == <<NL, NL>>

\* the for sep in [...] / else of chunk_text: the end chosen inside window w
\* (text[start:start+chunk_size]) by the first separator of seps whose last
\* occurrence lies beyond chunk_size // 2, else by the last space beyond it,
\* else the unmodified window end
BreakEnd(w, start, chunk_size, seps) ==
    LET half == chunk_size \div 2
        good == {i \in 1..Len(seps) : RFind(w, seps[i]) > half}
        last_space == RFind(w, <<SP>>)
    IN  IF good # {}
        THEN LET i == CHOOSE x \in good : \A y \in good : x <= y
             IN  start + RFind(w, seps[i]) + Len(seps[i])
        ELSE IF last_space > half THEN start + last_space + 1
        ELSE start + chunk_size

\* a window closed at its last space whenever one lies beyond the halfway
\* point
WindowEndSpaceFirst(text, start, chunk_size) ==
    LET end == start + chunk_size
        w == PySlice(text, start, end)
        last_space == RFind(w, <<SP>>)
    IN  IF ~(end < Len(text)) THEN end
        ELSE IF last_space > chunk_size \div 2 THEN start + last_space + 1
        ELSE BreakEnd(w, start, chunk_size, SentenceSeps)

\* santa_clara: end of the window that begins at start
WindowEndSantaClara(text, start, chunk_size) ==
    LET end == start + chunk_size
        w == PySlice(text, start, end)
        para_break == RFind(w, ParaSep)
    IN  IF ~(end < Len(text)) THEN end
        ELSE IF para_break > chunk_size \div 2 THEN start + para_break + 2
        ELSE BreakEnd(w, start, chunk_size, SentenceSeps)

\* solano_v3 and ingest_to_supabase: end of the window that begins at start
WindowEndSolano(text, start, chunk_size) ==
    LET end == start + chunk_size
        w == PySlice(text, start, end)
    IN  IF ~(end < Len(text)) THEN end
        ELSE BreakEnd(w, start, chunk_size, SentenceSeps \o <<ParaSep>>)

\* the while loops, from window start `start` on
RECURSIVE CarveSantaClara(_, _, _, _)
CarveSantaClara(text, start, chunk_size, overlap) ==
    IF ~(start < Len(text)) THEN <<>>
    ELSE LET end == WindowEndSantaClara(text, start, chunk_size)
             chunk == Strip(PySlice(text, start, end))
             next == IF end < Len(text) THEN end - overlap ELSE end
         IN  (IF chunk # <<>> THEN <<chunk>> ELSE <<>>)
                 \o CarveSantaClara(text, next, chunk_size, overlap)

RECURSIVE CarveSolanoV3(_, _, _, _)
CarveSolanoV3(text, start, chunk_size, overlap) ==
    IF ~(start < Len(text)) THEN <<>>
    ELSE LET end == WindowEndSolano(text, start, chunk_size)
             chunk == Strip(PySlice(text, start, end))
         IN  (IF chunk # <<>> /\ Len(chunk) > ScaledMinChunk THEN <<chunk>> ELSE <<>>)
                 \o CarveSolanoV3(text, end - overlap, chunk_size, overlap)

RECURSIVE CarveIngest(_, _, _, _)
CarveIngest(text, start, chunk_size, overlap) ==
    IF ~(start < Len(text)) THEN <<>>
    ELSE LET end == WindowEndSolano(text, start, chunk_size)
             chunk == Strip(PySlice(text, start, end))
         IN  (IF chunk # <<>> THEN <<chunk>> ELSE <<>>)
                 \o CarveIngest(text, end - overlap, chunk_size, overlap)

\* import_santa_clara.chunk_text
chunk_text_santa_clara(text0, chunk_size, overlap) ==
    IF text0 = <<>> \/ Len(Strip(text0)) = 0 THEN <<>>
    ELSE LET text == Strip(CollapseNewlines(Replace(text0, <<CR, NL>>, <<NL>>)))
         IN  IF Len(text) <= chunk_size THEN <<text>>
             ELSE CarveSantaClara(text, 0, chunk_size, overlap)

\* ingest_solano_v3.chunk_text
chunk_text_solano_v3(text0, chunk_size, overlap) ==
    IF text0 = <<>> \/ Len(Strip(text0)) = 0 THEN <<>>
    ELSE LET text == Strip(CollapseWhitespace(text0))
         IN  IF Len(text) <= chunk_size THEN <<text>>
             ELSE CarveSolanoV3(text, 0, chunk_size, overlap)

\* ingest_to_supabase.chunk_text
chunk_text_ingest(text0, chunk_size, overlap) ==
    IF text0 = <<>> \/ Len(Strip(text0)) = 0 THEN <<>>
    ELSE LET text == Strip(CollapseWhitespace(text0))
         IN  IF Len(text) <= chunk_size THEN <<text>>
             ELSE CarveIngest(text, 0, chunk_size, overlap)

\* chunk_text(text) as main calls it, with the script's default configuration
chunk_text(script, text) ==
    CASE script = "santa_clara" -> chunk_text_santa_clara(text, ScaledChunkSize, ScaledOverlap)
      [] script = "solano_v3" -> chunk_text_solano_v3(text, ScaledChunkSize, ScaledOverlap)
      [] script = "ingest_to_supabase" -> chunk_text_ingest(text, ScaledChunkSize, ScaledOverlap)

\* ------------------------------------------------------------------------
\* Filename parser (import_santa_clara.parse_filename)
\* ------------------------------------------------------------------------
DigitChars == {"0", "1", "2", "3", "4", "5", "6", "7", "8", "9"}
UpperChars == {"A", "B", "C", "D", "E", "F", "G", "H", "I", "J", "K", "L", "M",
               "N", "O", "P", "Q", "R", "S", "T", "U", "V", "W", "X", "Y", "Z"}
Unknown == <<"U", "n", "k", "n", "o", "w", "n">>

\* s with an optional leading character c removed (the regex's c?)
DropOpt(s, c) == IF s # <<>> /\ Head(s) = c THEN Tail(s) ELSE s

\* s with its leading whitespace run removed (the regex's \s*)
DropWs(s) == SubSeq(s, RunLen(s, Whitespace) + 1, Len(s))

\* re.match(r'^(\d+(?:-[A-Z0-9]+)?)\s*_?-?\s*_?(.*)$', name); every
\* quantifier is greedy and (.*) accepts whatever is left of a one-line
\* name, so the match never backtracks
parse_filename(filename) ==
    LET name == Replace(filename, <<".", "p", "d", "f">>, <<>>)
        nd == RunLen(name, DigitChars)
        after == SubSeq(name, nd + 1, Len(name))
        ns == IF after # <<>> /\ Head(after) = "-"
              THEN RunLen(Tail(after), UpperChars \cup DigitChars) ELSE 0
        numLen == IF ns > 0 THEN nd + 1 + ns ELSE nd
        num == SubSeq(name, 1, numLen)
        rest == DropOpt(DropWs(DropOpt(DropOpt(DropWs(
                    SubSeq(name, numLen + 1, Len(name))), "_"), "-")), "_")
    IN  IF nd > 0
        THEN <<num, Strip(Replace(rest, <<"_">>, <<SP>>))>>
        ELSE <<Unknown, Replace(name, <<"_">>, <<SP>>)>>

\* ------------------------------------------------------------------------
\* Documents, chunk records and the store
\* ------------------------------------------------------------------------
STATE_CODE == "CA"
TITLE_LIMIT == 255        \* doc_name[:255] of ingest_solano_v3

\* AGENCY_NAME of each script
AGENCY_NAME(s) ==
    IF s = "santa_clara" THEN "Santa Clara County EMS Agency"
    ELSE "Solano County EMS Agency"

\* a column the record does not set
NULL == <<>>
NoOrdinal == 0 - 1

\* hashlib.md5(s.encode()).hexdigest(): a digest is taken to identify its
\* input, so the formatted string stands for it
md5(s) == s

\* the embedding provider's vector for input text t
Vec(t) == <<"vec">> \o t

\* Source documents.  name is the PDF file name (santa_clara) or long_name
\* (solano); text is the text of the document's pages (santa_clara) or its
\* extracted_text (solano); readable is FALSE for a PDF the reader library
\* fails on.
DocLong == [name |-> <<"7", "_", "A", ".", "p", "d", "f">>,
            text |-> <<"a", "b", SP, "c", "d", ".", SP, "e", "f", SP, "g", "h">>,
            readable |-> TRUE]
DocShort == [name |-> <<"8", "-", "B", ".", "p", "d", "f">>,
             text |-> <<"x", "y", "z", "!">>, readable |-> TRUE]
DocBlank == [name |-> <<"C", ".", "p", "d", "f">>, text |-> <<SP>>, readable |-> TRUE]
DocBad == [name |-> <<"6", "_", "D", ".", "p", "d", "f">>, text |-> <<>>,
           readable |-> FALSE]

\* the document lists a run may find (sorted(glob) / the JSON snapshot)
DocLists == {<<>>, <<DocBlank>>, <<DocShort>>, <<DocLong, DocShort, DocBlank>>,
             <<DocBad, DocShort>>}

\* a second PDF whose file name parses to the number and title of DocShort's
DocTwin == [name |-> <<"8", "-", "B", "_", ".", "p", "d", "f">>,
            text |-> <<"x", "y", "z", "?">>, readable |-> TRUE]

\* a second document of the snapshot with the long name of DocShort
DocSameName == [name |-> DocShort.name, text |-> <<"x", "y", "z", "?">>,
                readable |-> TRUE]

\* the document lists a run of script s may find: file names are unique in
\* the PDF directory, long names need not be in the snapshot
DocListsOf(s) ==
    DocLists \cup (IF s = "santa_clara" THEN {<<DocShort, DocTwin>>}
                   ELSE {<<DocShort, DocSameName>>})

\* which PDF library the environment has: pdfplumber, else PyPDF2, else none
Backends == {"pdfplumber", "PyPDF2", "none"}

\* extract_text_from_pdf(pdf_path): the text returned, or raised = TRUE when
\* an exception leaves the function.  With pdfplumber, an error on the file
\* is caught by `except Exception` and "" is returned.  Without pdfplumber
\* the import raises ImportError and the fallback runs inside that handler:
\* its inner try catches ImportError only, and an exception raised inside a
\* handler is not caught by the other handlers of the same try, so an error
\* of PdfReader on the file leaves the function.
extract_text_from_pdf(backend, doc) ==
    CASE backend = "pdfplumber" ->
             [raised |-> FALSE, text |-> IF doc.readable THEN doc.text ELSE <<>>]
      [] backend = "PyPDF2" ->
             IF doc.readable THEN [raised |-> FALSE, text |-> doc.text]
             ELSE [raised |-> TRUE, text |-> <<>>]
      [] backend = "none" -> [raised |-> FALSE, text |-> <<>>]

\* the document with the text main works on: the extracted text of the PDF
\* (santa_clara) or the snapshot's extracted_text (solano)
SeenDoc(s, backend, doc) ==
    IF s = "santa_clara"
    THEN [doc EXCEPT !.text = extract_text_from_pdf(backend, doc).text]
    ELSE doc

\* chunk_record of import_santa_clara.main for chunk j of chunks
RecordSantaClara(doc, chunks, j) ==
    LET pn == parse_filename(doc.name)
        protocol_num == pn[1]
        protocol_title == pn[2]
        agency == AGENCY_NAME("santa_clara")
    IN  [chunk_id |-> md5(<<agency, ":">> \o protocol_num \o <<":">>
                          \o protocol_title \o <<":">> \o Digits(j)),
         agency_name |-> agency,
         state_code |-> STATE_CODE,
         protocol_name |-> protocol_num \o <<SP, "-", SP>> \o protocol_title,
         chunk_index |-> j,
         total_chunks |-> Len(chunks),
         content |-> chunks[j + 1],
         embedding |-> NULL]

\* chunk_record of ingest_to_supabase.main for chunk i of chunks
RecordIngest(doc, chunks, i) ==
    LET agency == AGENCY_NAME("ingest_to_supabase")
    IN  [chunk_id |-> md5(<<agency, ":">> \o doc.name \o <<":">> \o Digits(i)),
         agency_name |-> agency,
         state_code |-> STATE_CODE,
         protocol_name |-> doc.name,
         chunk_index |-> i,
         total_chunks |-> Len(chunks),
         content |-> chunks[i + 1],
         embedding |-> NULL]

\* chunk_record of ingest_solano_v3.main (protocol_title is held in the
\* protocol_name field); it sets no chunk_id, chunk_index or total_chunks
RecordSolanoV3(doc, chunks, i) ==
    [chunk_id |-> NULL,
     agency_name |-> AGENCY_NAME("solano_v3"),
     state_code |-> STATE_CODE,
     protocol_name |-> PySlice(doc.name, 0, TITLE_LIMIT),
     chunk_index |-> NoOrdinal,
     total_chunks |-> NoOrdinal,
     content |-> chunks[i + 1],
     embedding |-> NULL]

\* whether main chunks the document at all
HasUsableText(s, doc) ==
    CASE s = "santa_clara" -> ~(Len(Strip(doc.text)) < ScaledMinText)
      [] s = "solano_v3" -> doc.text # <<>> /\ Len(doc.text) > ScaledMinText
      [] s = "ingest_to_supabase" -> doc.text # <<>>

\* chunk records numbered from 1 instead of 0
RecordsOfOneBased(s, doc) ==
    LET chunks == chunk_text(s, doc.text)
    IN  [k \in 1..Len(chunks) |->
            CASE s = "santa_clara" ->
                     [RecordSantaClara(doc, chunks, k - 1) EXCEPT !.chunk_index = k]
              [] s = "solano_v3" -> RecordSolanoV3(doc, chunks, k - 1)
              [] s = "ingest_to_supabase" ->
                     [RecordIngest(doc, chunks, k - 1) EXCEPT !.chunk_index = k]]

\* the chunk records main creates for one document
RecordsOf(s, doc) ==
    LET chunks == chunk_text(s, doc.text)
    IN  [k \in 1..Len(chunks) |->
            CASE s = "santa_clara" -> RecordSantaClara(doc, chunks, k - 1)
              [] s = "solano_v3" -> RecordSolanoV3(doc, chunks, k - 1)
              [] s = "ingest_to_supabase" -> RecordIngest(doc, chunks, k - 1)]

\* the text sent to the embedding provider for one chunk record
EmbedText(s, c) ==
    CASE s = "santa_clara" ->
             PySlice(c.protocol_name \o <<NL, NL>> \o c.content, 0, INPUT_LIMIT)
      [] s = "solano_v3" ->
             PySlice(c.protocol_name \o <<NL, NL>> \o c.content, 0, INPUT_LIMIT)
      [] s = "ingest_to_supabase" -> c.content

\* Rows left in the store by earlier ingestions: one per agency, each of a
\* document that is no longer among the inputs.
PriorRow(agency, keyed) ==
    [chunk_id |-> IF keyed THEN md5(<<agency, ":", "9", ":", "O", ":", "0">>) ELSE NULL,
     agency_name |-> agency,
     state_code |-> STATE_CODE,
     protocol_name |-> <<"9", SP, "-", SP, "O">>,
     chunk_index |-> IF keyed THEN 0 ELSE NoOrdinal,
     total_chunks |-> IF keyed THEN 1 ELSE NoOrdinal,
     content |-> <<"o", "l", "d">>,
     embedding |-> Vec(<<"o", "l", "d">>)]

PriorStore ==
    SetToBag({PriorRow("Santa Clara County EMS Agency", TRUE),
              PriorRow("Solano County EMS Agency", TRUE),
              PriorRow("Solano County EMS Agency", FALSE)})

\* the bag of the elements of sequence rows
RECURSIVE SeqToBag(_)
SeqToBag(rows) ==
    IF rows = <<>> THEN EmptyBag ELSE SetToBag({Head(rows)}) (+) SeqToBag(Tail(rows))

\* the rows of bag b that satisfy keep
BagFilter(b, keep(_)) == [r \in {x \in DOMAIN b : keep(x)} |-> b[r]]

\* a delete that filters on the state code alone
DeleteWhereState(b, agency, state) == BagFilter(b, LAMBDA r : r.state_code # state)

\* DELETE ...?agency_name=eq.A&state_code=eq.S
DeleteWhereAgencyState(b, agency, state) ==
    BagFilter(b, LAMBDA r : ~(r.agency_name = agency /\ r.state_code = state))

\* DELETE ...?agency_name=eq.A
DeleteWhereAgency(b, agency) == BagFilter(b, LAMBDA r : r.agency_name # agency)

\* POST of records with Prefer: resolution=merge-duplicates: a record
\* replaces the stored row that has its chunk_id, else it is added
RECURSIVE MergeDuplicates(_, _)
MergeDuplicates(b, records) ==
    IF records = <<>> THEN b
    ELSE LET r == Head(records)
             kept == BagFilter(b, LAMBDA x : r.chunk_id = NULL \/ x.chunk_id # r.chunk_id)
         IN  MergeDuplicates(kept (+) SetToBag({r}), Tail(records))

\* plain POST of records: every record becomes a new row
InsertRows(b, records) == b (+) SeqToBag(records)

\* ------------------------------------------------------------------------
\* The ingestion run (main of each script)
\* ------------------------------------------------------------------------
VARIABLES
    script,              \* which script the runs execute
    store,               \* manus_protocol_chunks: a bag of rows
    pc,                  \* position of the current run in main
    pdf_backend,         \* the PDF library installed where the script runs
    docs,                \* the documents the current run found
    docIdx,              \* next document of the processing loop (1-based)
    all_chunks,          \* chunk records created so far
    protocols_processed, \* documents chunked so far
    i,                   \* batch loop index
    embeddings,          \* the last embeddings response
    inserted,            \* chunks counted as inserted
    errors,              \* chunks counted as failed
    reqlog,              \* calls issued to the store and the provider, in order
    storeAtStart,        \* the store when the current run began
    prevRun,             \* how the previous run ended
    ck,                  \* a call of chunk_text under way: its locals
    cat,                 \* a call of categorize_protocol: arguments, result
    pf,                  \* a call of the name parser: arguments, result
    slept                \* time.sleep ran since the last embedding request

vars == <<script, store, pc, pdf_backend, docs, docIdx, all_chunks,
          protocols_processed, i, embeddings, inserted, errors, reqlog,
          storeAtStart, prevRun, ck, cat, pf, slept>>

\* outcomes of an HTTP call: a 2xx response, another status, or an exception
\* raised by requests (connection error, timeout)
Outcomes == {"ok", "http_error", "exception"}

Finished == {"done", "exit", "aborted"}

NoRun == [valid |-> FALSE, docs |-> <<>>, store |-> EmptyBag, pc |-> "idle", errors |-> 0,
          reqlog |-> <<>>, keys |-> {}]

\* a slice that runs one chunk into the next batch
BatchOverlapping(chunks, at) == PySlice(chunks, at, at + ScaledBatch + 1)

\* batch = all_chunks[i:i + BATCH_SIZE]
Batch(chunks, at) == PySlice(chunks, at, at + ScaledBatch)

\* texts of the batch, as passed to get_voyage_embeddings
Texts(s, batch) == [k \in 1..Len(batch) |-> EmbedText(s, batch[k])]

\* for chunk, embedding in zip(batch, embeddings): chunk['embedding'] = embedding
\* (the batch shares its records with all_chunks)
AttachEmbeddings(chunks, at, embs) ==
    [k \in 1..Len(chunks) |->
        IF at < k /\ k <= at + Min(Len(embs), Len(Batch(chunks, at)))
        THEN [chunks[k] EXCEPT !.embedding = embs[k - at]]
        ELSE chunks[k]]

\* a main that goes from the documents straight to the batches
AfterProcessingNoDelete(s, chunks) == IF Len(chunks) = 0 THEN "summary" ELSE "embed"

\* where main goes once every document is processed
AfterProcessing(s, chunks) ==
    CASE s = "santa_clara" -> IF Len(chunks) = 0 THEN "exit" ELSE "delete"
      [] s = "solano_v3" -> IF Len(chunks) = 0 THEN "summary" ELSE "embed"
      [] s = "ingest_to_supabase" -> IF Len(chunks) = 0 THEN "summary" ELSE "embed"

\* a batch loop that leaves at the first batch (break)
AfterBatchBreak(at, chunks) == "summary"

\* for i in range(0, len(all_chunks), BATCH_SIZE): the next iteration, or
\* the summary after the last one
AfterBatch(at, chunks) == IF at + ScaledBatch < Len(chunks) THEN "embed" ELSE "summary"

\* errors += 1: failed batches counted instead of failed chunks
CountFailedBatches(n, batch) == n + 1

\* errors += len(batch)
CountFailed(n, batch) == n + Len(batch)

\* inserted += len(batch)
CountInserted(n, batch) == n + Len(batch)

\* no call of chunk_text is being followed
NoCall == [pc |-> "none", text |-> <<>>, chunk_size |-> 0, overlap |-> 0,
           start |-> 0, chunks |-> <<>>, spans |-> <<>>, visited |-> {}]

\* no call of categorize_protocol under way
NoCategorize == [pc |-> "none", protocol_num |-> <<>>, title |-> <<>>,
                 content |-> <<>>, category_path |-> <<>>, label |-> <<>>]

\* no call of the name parser under way
NoParse == [pc |-> "none", name |-> <<>>, short_name |-> <<>>,
            number |-> <<>>, title |-> <<>>]

Init ==
    /\ script \in Scripts
    /\ store \in {EmptyBag, PriorStore}
    /\ pc = "idle"
    /\ pdf_backend \in (IF script = "santa_clara" THEN Backends ELSE {"none"})
    /\ docs = <<>>
    /\ docIdx = 1
    /\ all_chunks = <<>>
    /\ protocols_processed = 0
    /\ i = 0
    /\ embeddings = <<>>
    /\ inserted = 0
    /\ errors = 0
    /\ reqlog = <<>>
    /\ storeAtStart = store
    /\ prevRun = NoRun
    /\ ck = NoCall
    /\ cat = NoCategorize
    /\ pf = NoParse
    /\ slept = FALSE

\* main() is entered: a first run, and one more run after it has ended
StartRun ==
    /\ pc = "idle" \/ (pc \in Finished /\ ~prevRun.valid)
    /\ \E d \in DocListsOf(script) : docs' = d
    /\ pc' = IF script = "solano_v3" THEN "delete" ELSE "process"
    /\ docIdx' = 1
    /\ all_chunks' = <<>>
    /\ protocols_processed' = 0
    /\ i' = 0
    /\ embeddings' = <<>>
    /\ inserted' = 0
    /\ errors' = 0
    /\ reqlog' = <<>>
    /\ storeAtStart' = store
    /\ prevRun' = IF pc = "idle" THEN NoRun
                  ELSE [valid |-> TRUE, docs |-> docs, store |-> store,
                        pc |-> pc, errors |-> errors, reqlog |-> reqlog,
                        keys |-> {all_chunks[k].chunk_id : k \in 1..Len(all_chunks)}]
    /\ slept' = FALSE
    /\ UNCHANGED <<script, pf, pdf_backend, ck, cat, store>>

\* one iteration of the document loop
ProcessDoc ==
    /\ pc = "process"
    /\ docIdx <= Len(docs)
    /\ LET doc == SeenDoc(script, pdf_backend, docs[docIdx])
           raised == script = "santa_clara"
                       /\ extract_text_from_pdf(pdf_backend, docs[docIdx]).raised
       IN  IF raised
           THEN /\ pc' = "aborted"
                /\ UNCHANGED <<all_chunks, protocols_processed>>
           ELSE /\ pc' = pc
                /\ IF HasUsableText(script, doc)
                   THEN /\ all_chunks' = all_chunks \o RecordsOf(script, doc)
                        /\ protocols_processed' = protocols_processed + 1
                   ELSE UNCHANGED <<all_chunks, protocols_processed>>
    /\ docIdx' = docIdx + 1
    /\ UNCHANGED <<script, pf, slept, pdf_backend, ck, cat, store, docs, i, embeddings, inserted, errors,
                   reqlog, storeAtStart, prevRun>>

\* the document loop is exhausted
EndProcess ==
    /\ pc = "process"
    /\ docIdx > Len(docs)
    /\ pc' = AfterProcessing(script, all_chunks)
    /\ UNCHANGED <<script, pf, slept, pdf_backend, ck, cat, store, docs, docIdx, all_chunks, protocols_processed,
                   i, embeddings, inserted, errors, reqlog, storeAtStart, prevRun>>

\* import_santa_clara: supabase_delete_existing(), its result unused
supabase_delete_existing ==
    /\ pc = "delete"
    /\ script = "santa_clara"
    /\ \E outcome \in Outcomes :
          /\ store' = IF outcome = "ok"
                      THEN DeleteWhereAgencyState(store, AGENCY_NAME(script), STATE_CODE)
                      ELSE store
          /\ pc' = IF outcome = "exception" THEN "aborted" ELSE "embed"
          /\ reqlog' = Append(reqlog, [op |-> "delete", at |-> 0, ok |-> outcome = "ok"])
    /\ UNCHANGED <<script, pf, slept, pdf_backend, ck, cat, docs, docIdx, all_chunks, protocols_processed, i,
                   embeddings, inserted, errors, storeAtStart, prevRun>>

\* ingest_solano_v3: delete_existing_chunks(): count, then delete if any
delete_existing_chunks ==
    /\ pc = "delete"
    /\ script = "solano_v3"
    /\ \E count \in Outcomes, del \in Outcomes :
          LET agency == AGENCY_NAME(script)
              existing == IF count = "ok"
                          THEN BagCardinality(BagFilter(store,
                                   LAMBDA r : r.agency_name = agency))
                          ELSE 0
              raised == count = "exception" \/ (existing > 0 /\ del = "exception")
          IN  /\ store' = IF count = "ok" /\ existing > 0 /\ del = "ok"
                          THEN DeleteWhereAgency(store, agency)
                          ELSE store
              /\ pc' = IF raised THEN "aborted" ELSE "process"
              /\ reqlog' = Append(reqlog,
                     [op |-> "delete", at |-> 0,
                      ok |-> count = "ok" /\ (existing = 0 \/ del = "ok")])
    /\ UNCHANGED <<script, pf, slept, pdf_backend, ck, cat, docs, docIdx, all_chunks, protocols_processed, i,
                   embeddings, inserted, errors, storeAtStart, prevRun>>

\* get_voyage_embeddings(texts) inside the batch's try block, and the zip
\* that follows it; the response carries n vectors: one per input, or one
\* fewer
get_voyage_embeddings ==
    /\ pc = "embed"
    /\ LET batch == Batch(all_chunks, i)
           texts == Texts(script, batch)
       IN  \/ /\ errors' = CountFailed(errors, batch)
              /\ reqlog' = Append(reqlog, [op |-> "embed", at |-> i, ok |-> FALSE])
              /\ i' = i + ScaledBatch
              /\ pc' = AfterBatch(i, all_chunks)
              /\ UNCHANGED <<all_chunks, embeddings>>
           \/ \E n \in {Len(texts) - 1, Len(texts)} :
                 /\ embeddings' = [k \in 1..n |-> Vec(texts[k])]
                 /\ all_chunks' = AttachEmbeddings(all_chunks, i, embeddings')
                 /\ reqlog' = Append(reqlog, [op |-> "embed", at |-> i, ok |-> TRUE])
                 /\ pc' = "upsert"
                 /\ UNCHANGED <<errors, i>>
    /\ slept' = FALSE
    /\ UNCHANGED <<script, pf, pdf_backend, ck, cat, store, docs, docIdx,
                   protocols_processed, inserted, storeAtStart, prevRun>>

\* import_santa_clara / ingest_to_supabase: supabase_upsert(batch), which
\* raises on a status other than 200/201
supabase_upsert ==
    /\ pc = "upsert"
    /\ script \in {"santa_clara", "ingest_to_supabase"}
    /\ LET batch == Batch(all_chunks, i)
       IN  \E outcome \in {"ok", "http_error"} :
              /\ store' = IF outcome = "ok" THEN MergeDuplicates(store, batch) ELSE store
              /\ inserted' = IF outcome = "ok" THEN CountInserted(inserted, batch)
                             ELSE inserted
              /\ errors' = IF outcome = "ok" THEN errors ELSE CountFailed(errors, batch)
              /\ reqlog' = Append(reqlog, [op |-> "upsert", at |-> i, ok |-> outcome = "ok"])
    /\ i' = i + ScaledBatch
    /\ pc' = AfterBatch(i, all_chunks)
    /\ UNCHANGED <<script, pf, slept, pdf_backend, ck, cat, docs, docIdx, all_chunks, protocols_processed,
                   embeddings, storeAtStart, prevRun>>

\* ingest_solano_v3: supabase_insert_batch(batch) and the counting on its
\* (success_count, error_msg) result.  On status 200/201 success_count is
\* len(response.json()), the number of rows the store reports back, which
\* is the store's to choose.
supabase_insert_batch ==
    /\ pc = "upsert"
    /\ script = "solano_v3"
    /\ LET batch == Batch(all_chunks, i)
       IN  \E outcome \in {"ok", "http_error"} :
           \E reported \in (IF outcome = "ok" THEN 0..Len(batch) ELSE {0}) :
              LET success_count == reported
              IN  /\ store' = IF outcome = "ok" THEN InsertRows(store, batch) ELSE store
                  /\ inserted' = IF success_count > 0 THEN inserted + success_count
                                 ELSE inserted
                  /\ errors' = IF success_count > 0 THEN errors
                               ELSE CountFailed(errors, batch)
                  /\ reqlog' = Append(reqlog,
                         [op |-> "upsert", at |-> i, ok |-> outcome = "ok"])
    /\ i' = i + ScaledBatch
    /\ pc' = AfterBatch(i, all_chunks)
    /\ slept' = TRUE
    /\ UNCHANGED <<script, pf, pdf_backend, ck, cat, docs, docIdx, all_chunks,
                   protocols_processed, embeddings, storeAtStart, prevRun>>

\* the summary is printed and main returns
Summary ==
    /\ pc = "summary"
    /\ pc' = "done"
    /\ UNCHANGED <<script, pf, slept, pdf_backend, ck, cat, store, docs, docIdx, all_chunks, protocols_processed,
                   i, embeddings, inserted, errors, reqlog, storeAtStart, prevRun>>

\* the counts the final summary prints: documents processed
\* (protocols_processed / len(docs_with_text)), chunks created, chunks
\* inserted and chunks failed
SummaryReport ==
    [documents_processed |-> protocols_processed,
     total_chunks |-> Len(all_chunks),
     inserted |-> inserted,
     errors |-> errors]

Next ==
    \/ StartRun
    \/ ProcessDoc
    \/ EndProcess
    \/ supabase_delete_existing
    \/ delete_existing_chunks
    \/ get_voyage_embeddings
    \/ supabase_upsert
    \/ supabase_insert_batch
    \/ Summary

Spec == Init /\ [][Next]_vars

\* one step of the batch loop of main
BatchStep == get_voyage_embeddings \/ supabase_upsert \/ supabase_insert_batch

\* the script is one sequential process: once inside the batch loop it keeps
\* executing it (every request returns or raises)
FairSpec == Spec /\ WF_vars(BatchStep)

\* ------------------------------------------------------------------------
\* Properties
\* ------------------------------------------------------------------------
ThisAgency == AGENCY_NAME(script)
AgencyRows(b) == BagFilter(b, LAMBDA r : r.agency_name = ThisAgency)
OtherRows(b) == BagFilter(b, LAMBDA r : r.agency_name # ThisAgency)

\* bag b with the embedding column blanked in every row
RECURSIVE WithoutEmbedding(_)
WithoutEmbedding(b) ==
    IF DOMAIN b = {} THEN EmptyBag
    ELSE LET r == CHOOSE x \in DOMAIN b : TRUE
             rest == [x \in DOMAIN b \ {r} |-> b[x]]
         IN  [y \in {[r EXCEPT !.embedding = NULL]} |-> b[r]] (+) WithoutEmbedding(rest)

LogIdx == 1..Len(reqlog)
AllCallsOk(log) == \A k \in 1..Len(log) : log[k].ok
RunReturned == pc \in {"done", "exit"}

\* C1: full replace -- when a run has finished and none of its calls failed,
\* the rows stored for the run's agency are exactly the chunk records the
\* run created (none when it created none), whatever the store held before.
C1_FullReplace ==
    (RunReturned /\ AllCallsOk(reqlog))
        => WithoutEmbedding(AgencyRows(store)) = WithoutEmbedding(SeqToBag(all_chunks))

\* C2: a run leaves the rows of every other agency as they were when it
\* began, and every record it creates carries the run's own agency name.
C2_OtherAgenciesUntouched ==
    /\ OtherRows(store) = OtherRows(storeAtStart)
    /\ \A k \in 1..Len(all_chunks) : all_chunks[k].agency_name = ThisAgency

\* C2 witness: a run that deleted its agency's rows and upserted a batch has
\* finished, with rows of another agency in the store.
C2_Witness ==
    /\ pc = "done"
    /\ OtherRows(storeAtStart) # EmptyBag
    /\ AgencyRows(storeAtStart) # EmptyBag
    /\ \E k \in LogIdx : reqlog[k].op = "delete" /\ reqlog[k].ok
    /\ \E k \in LogIdx : reqlog[k].op = "upsert" /\ reqlog[k].ok

\* C3: once the delete step of a run has failed, the run issues no embedding
\* request and no insert/upsert.
C3_DeleteFailureAborts ==
    \A j, k \in LogIdx :
        (j < k /\ reqlog[j].op = "delete" /\ ~reqlog[j].ok)
            => reqlog[k].op \notin {"embed", "upsert"}

\* the scripts whose main has a delete step
ScriptsWithDelete == {"santa_clara", "solano_v3"}

BatchFails ==
    /\ pc \in {"embed", "upsert"}
    /\ Len(reqlog') = Len(reqlog) + 1
    /\ ~reqlog'[Len(reqlog')].ok

\* C5: when the embedding request or the insert/upsert of a batch fails, the
\* failed counter grows by the size of that batch, the inserted counter
\* keeps its value and the store is left as it was (nothing stored by an
\* earlier batch is taken back).
C5_FailedBatchCounted ==
    [][BatchFails => /\ errors' = errors + Len(Batch(all_chunks, i))
                     /\ inserted' = inserted
                     /\ store' = store]_vars

\* C5 witness: a batch of two chunks has failed after an earlier batch of
\* the run was stored.
C5_Witness ==
    /\ inserted > 0
    /\ errors = ScaledBatch
    /\ \E j, k \in LogIdx : j < k /\ reqlog[j].op = "upsert" /\ reqlog[j].ok /\ ~reqlog[k].ok

\* the embedding requests of the log, in order
EmbedCalls == SelectSeq(reqlog, LAMBDA e : e.op = "embed")

\* range(0, n, BATCH_SIZE)
BatchOffsets(n) == [k \in 1..((n + ScaledBatch - 1) \div ScaledBatch) |-> (k - 1) * ScaledBatch]

InBatchLoop == pc \in {"embed", "upsert"}

C7_RerunIdempotent ==
    (/\ RunReturned
     /\ prevRun.valid
     /\ prevRun.pc \in {"done", "exit"}
     /\ prevRun.docs = docs
     /\ prevRun.errors = 0
     /\ errors = 0)
        => WithoutEmbedding(AgencyRows(store)) = WithoutEmbedding(AgencyRows(prevRun.store))

\* C8: every chunk record a run creates carries an identity key, the key is
\* determined by the record's agency, document and ordinal, and a run over
\* the same documents as the run before it computes the same set of keys.
C8_ChunkKeys ==
    /\ \A k \in 1..Len(all_chunks) : all_chunks[k].chunk_id # NULL
    /\ \A k, m \in 1..Len(all_chunks) :
          (/\ all_chunks[k].agency_name = all_chunks[m].agency_name
           /\ all_chunks[k].protocol_name = all_chunks[m].protocol_name
           /\ all_chunks[k].chunk_index = all_chunks[m].chunk_index)
              => all_chunks[k].chunk_id = all_chunks[m].chunk_id
    /\ (RunReturned /\ prevRun.valid /\ prevRun.pc \in {"done", "exit"} /\ prevRun.docs = docs)
          => {all_chunks[k].chunk_id : k \in 1..Len(all_chunks)} = prevRun.keys

\* document d of the run, with the text main works on
Doc(d) == SeenDoc(script, pdf_backend, docs[d])

\* number of chunk records created for the first d documents of the run
RECURSIVE ChunksBefore(_)
ChunksBefore(d) ==
    IF d = 0 THEN 0
    ELSE ChunksBefore(d - 1)
            + (IF HasUsableText(script, Doc(d))
               THEN Len(chunk_text(script, Doc(d).text)) ELSE 0)

\* the scripts whose chunk records carry chunk_index and total_chunks
ScriptsWithOrdinals == {"santa_clara", "ingest_to_supabase"}

C10_EveryRecordEmbedded ==
    /\ pc = "upsert" =>
          \A k \in 1..Len(Batch(all_chunks, i)) :
              /\ Batch(all_chunks, i)[k].embedding # NULL
              /\ k <= Len(embeddings)
              /\ Batch(all_chunks, i)[k].embedding = embeddings[k]
    /\ \A r \in DOMAIN AgencyRows(store) : r.embedding # NULL

\* the characters of t that are not whitespace
NonWhitespace(t) == SelectSeq(t, LAMBDA c : c \notin Whitespace)

\* a document whose text is empty or has fewer non-whitespace characters
\* than the minimum
NoUsableText(doc) == Len(NonWhitespace(doc.text)) < ScaledMinText

\* a step of the document loop: the document at docIdx is dealt with
DocStep == pc = "process" /\ docIdx <= Len(docs) /\ docIdx' = docIdx + 1

\* extraction from document d raises
ExtractionRaises(d) ==
    script = "santa_clara" /\ extract_text_from_pdf(pdf_backend, docs[d]).raised

\* documents of the run without usable text
UnusableDocs == {d \in 1..Len(docs) : NoUsableText(Doc(d))}

\* C11: a document whose extracted text is empty or has fewer than the
\* minimum number of non-whitespace characters is skipped -- the step of
\* the document loop that deals with it creates no chunk record and leaves
\* the run in the document loop -- and the run counts it as skipped: the
\* summary reports a documents-skipped count equal to the number of such
\* documents.
C11_UnusableDocumentSkipped ==
    /\ [][(DocStep /\ ~ExtractionRaises(docIdx) /\ NoUsableText(Doc(docIdx)))
             => (all_chunks' = all_chunks /\ pc' = "process")]_vars
    /\ [](pc = "done" =>
             /\ "documents_skipped" \in DOMAIN SummaryReport
             /\ SummaryReport["documents_skipped"] = Cardinality(UnusableDocs))

\* C12: in import_santa_clara, for every unreadable document the run has
\* dealt with, extract_text_from_pdf returned the empty string without
\* raising, whichever PDF library is installed, and the run was not aborted
\* in the document loop.
C12_ExtractionFailureSkipped ==
    script = "santa_clara" =>
        \A d \in 1..Min(docIdx - 1, Len(docs)) :
            ~docs[d].readable =>
                /\ extract_text_from_pdf(pdf_backend, docs[d])
                       = [raised |-> FALSE, text |-> <<>>]
                /\ ~(pc = "aborted" /\ reqlog = <<>>)

\* ------------------------------------------------------------------------
\* chunk_text followed statement by statement, for any configuration
\* ------------------------------------------------------------------------
\* the clean-up of the text at the top of chunk_text
Normalize(s, text0) ==
    IF s = "santa_clara"
    THEN Strip(CollapseNewlines(Replace(text0, <<CR, NL>>, <<NL>>)))
    ELSE Strip(CollapseWhitespace(text0))

\* a window that closes one character late
WindowEndLate(s, text, start, chunk_size) == start + chunk_size + 1

\* end = start + chunk_size, moved back to a break when there is one
WindowEnd(s, text, start, chunk_size) ==
    IF s = "santa_clara" THEN WindowEndSantaClara(text, start, chunk_size)
    ELSE WindowEndSolano(text, start, chunk_size)

\* chunk = text[start:end].strip()
ChunkOf(text, start, end) == Strip(PySlice(text, start, end))

\* if chunk: / if chunk and len(chunk) > 50:
KeepChunk(s, chunk) ==
    chunk # <<>> /\ (s = "solano_v3" => Len(chunk) > ScaledMinChunk)

\* a next window that begins one character after the end of this one
NextStartGap(s, text, end, overlap) == end + 1

\* a next window that goes back by twice the overlap
NextStartDoubleOverlap(s, text, end, overlap) == end - 2 * overlap

\* the start of the next window
NextStart(s, text, end, overlap) ==
    IF s = "santa_clara" THEN (IF end < Len(text) THEN end - overlap ELSE end)
    ELSE end - overlap

\* texts chunk_text is called with
ChunkerTexts ==
    {<<>>,
     <<SP>>,
     <<"x", "y", "z", "!">>,
     <<"a", "b", SP, "c", "d", ".", SP, "e", "f", SP, "g", "h">>,
     <<"a", "b", "c", "d", "e", "f", "g", "h", "i", "j", "k", "l", "m", "n">>,
     <<"a", "b", "c", "d", SP, "e", "f", "g", "h", SP, "i", "j", "k", "l">>,
     <<"a", "b", CR, NL, NL, NL, NL, "c", "d", SP, "e", "f", "g", SP>>,
     <<"a", "b", "c", "d", "e", ".", SP, "f", SP, "g", "h", "i", "j", SP, "k", "l", "m">>,
     <<"a", "b", "c", "d", "e", NL, NL, ".", SP, "x", "y", "z", SP, "u", "v", "w">>,
     <<"a", "b", NL, NL, "c", "d", ".", SP, "e", SP, "f", "g", "h", "i">>}

\* configurations chunk_text is called with: the default, a smaller, a
\* larger and a very small chunk size, every overlap up to one beyond the
\* default chunk size
SmallChunkSize == 2
ChunkSizes == {SmallChunkSize, ScaledChunkSize - 1, ScaledChunkSize, ScaledChunkSize + 3}
Overlaps == 0..(ScaledChunkSize + 1)

\* chunk_text(text, chunk_size, overlap) is called
ChunkerInit ==
    /\ script \in Scripts
    /\ store = EmptyBag
    /\ pc = "idle"
    /\ pdf_backend = "none"
    /\ cat = NoCategorize
    /\ pf = NoParse
    /\ slept = FALSE
    /\ docs = <<>>
    /\ docIdx = 1
    /\ all_chunks = <<>>
    /\ protocols_processed = 0
    /\ i = 0
    /\ embeddings = <<>>
    /\ inserted = 0
    /\ errors = 0
    /\ reqlog = <<>>
    /\ storeAtStart = store
    /\ prevRun = NoRun
    /\ \E t \in ChunkerTexts, cs \in ChunkSizes, ov \in Overlaps :
          ck = [NoCall EXCEPT !.pc = "called", !.text = t,
                              !.chunk_size = cs, !.overlap = ov]

\* the statements of chunk_text before the while loop
ChunkTextEnter ==
    /\ ck.pc = "called"
    /\ LET text == Normalize(script, ck.text)
       IN  ck' = IF ck.text = <<>> \/ Len(Strip(ck.text)) = 0
                 THEN [ck EXCEPT !.pc = "returned"]
                 ELSE IF Len(text) <= ck.chunk_size
                 THEN [ck EXCEPT !.pc = "returned", !.text = text,
                                 !.chunks = <<text>>,
                                 !.spans = <<[start |-> 0, end |-> Len(text)]>>]
                 ELSE [ck EXCEPT !.pc = "loop", !.text = text, !.start = 0]
    /\ UNCHANGED <<script, pf, slept, store, pc, pdf_backend, cat, docs, docIdx, all_chunks,
                   protocols_processed, i, embeddings, inserted, errors, reqlog,
                   storeAtStart, prevRun>>

\* The loop will never end.  Either it is at a window start it has carved
\* from before (an iteration depends on start alone, so from here it
\* repeats itself), or the window lies wholly before text[-len(text)] with
\* overlap >= chunk_size (text[start:end] is then empty, end is left at
\* start + chunk_size, and start does not grow any more).
Stalled ==
    /\ ck.pc = "loop"
    /\ ck.start < Len(ck.text)
    /\ \/ ck.start \in ck.visited
       \/ (ck.start + ck.chunk_size < 0 - Len(ck.text) /\ ck.overlap >= ck.chunk_size)

\* one iteration of the while loop (followed until the loop stalls)
ChunkTextLoop ==
    /\ ck.pc = "loop"
    /\ ck.start < Len(ck.text)
    /\ ~Stalled
    /\ LET end == WindowEnd(script, ck.text, ck.start, ck.chunk_size)
           chunk == ChunkOf(ck.text, ck.start, end)
           keep == KeepChunk(script, chunk)
       IN  ck' = [ck EXCEPT
                    !.chunks = IF keep THEN Append(ck.chunks, chunk) ELSE ck.chunks,
                    !.spans = IF keep
                              THEN Append(ck.spans, [start |-> ck.start, end |-> end])
                              ELSE ck.spans,
                    !.visited = ck.visited \cup {ck.start},
                    !.start = NextStart(script, ck.text, end, ck.overlap)]
    /\ UNCHANGED <<script, pf, slept, store, pc, pdf_backend, cat, docs, docIdx, all_chunks,
                   protocols_processed, i, embeddings, inserted, errors, reqlog,
                   storeAtStart, prevRun>>

\* the while condition fails: return chunks
ChunkTextReturn ==
    /\ ck.pc = "loop"
    /\ ~(ck.start < Len(ck.text))
    /\ ck' = [ck EXCEPT !.pc = "returned"]
    /\ UNCHANGED <<script, pf, slept, store, pc, pdf_backend, cat, docs, docIdx, all_chunks,
                   protocols_processed, i, embeddings, inserted, errors, reqlog,
                   storeAtStart, prevRun>>

ChunkerNext == ChunkTextEnter \/ ChunkTextLoop \/ ChunkTextReturn

ChunkerSpec == ChunkerInit /\ [][ChunkerNext]_vars

\* the configuration of the call satisfies 0 <= overlap < chunk_size
ValidConfig == 0 <= ck.overlap /\ ck.overlap < ck.chunk_size

\* the call has returned its chunks for a text that is not blank
ReturnedChunks == ck.pc = "returned" /\ Strip(ck.text) # <<>>

\* C13: with overlap >= chunk_size, chunk_text (import_santa_clara,
\* ingest_solano_v3) never enters its carving loop and produces no chunk.
C13_BadConfigRejected ==
    (script \in {"santa_clara", "solano_v3"} /\ ck.pc # "none"
       /\ ck.overlap >= ck.chunk_size)
        => (ck.pc # "loop" /\ ck.chunks = <<>>)

\* C14: with 0 <= overlap < chunk_size, chunk_text terminates: its loop
\* never reaches a state from which it cannot end (the window start never
\* comes back to a value it had).
C14_ChunkerTerminates == ValidConfig => ~Stalled

\* C15: every chunk chunk_text has produced is non-empty, is not made of
\* whitespace only and is at most chunk_size long; a text no longer than
\* chunk_size (after clean-up) is returned as a single chunk.
C15_ChunkShape ==
    /\ \A k \in 1..Len(ck.chunks) :
          /\ ck.chunks[k] # <<>>
          /\ NonWhitespace(ck.chunks[k]) # <<>>
          /\ Len(ck.chunks[k]) <= ck.chunk_size
    /\ (ReturnedChunks /\ Len(ck.text) <= ck.chunk_size) => ck.chunks = <<ck.text>>

\* C15 witness: a call has returned at least three chunks, one of them of
\* exactly chunk_size characters and one shortened by the strip.
C15_Witness ==
    /\ ck.pc = "returned"
    /\ Len(ck.chunks) >= 3
    /\ \E k \in 1..Len(ck.chunks) : Len(ck.chunks[k]) = ck.chunk_size
    /\ \E k \in 1..Len(ck.chunks) :
          Len(ck.chunks[k]) < ck.spans[k].end - ck.spans[k].start

\* the first chunk whole, then every later chunk without its first n
\* characters, concatenated
RECURSIVE DropAndJoin(_, _)
DropAndJoin(cs, n) ==
    IF cs = <<>> THEN <<>>
    ELSE PySlice(Head(cs), n, Len(Head(cs))) \o DropAndJoin(Tail(cs), n)

Rebuilt(cs, n) == IF cs = <<>> THEN <<>> ELSE Head(cs) \o DropAndJoin(Tail(cs), n)

\* C16: for a non-blank text and 0 <= overlap < chunk_size, the first chunk
\* followed by every later chunk without its first `overlap` characters is
\* the cleaned-up text.  The two are compared with all whitespace left out,
\* which allows for more than the whitespace the strip trims off a chunk's
\* end.  (import_santa_clara, ingest_solano_v3)
C16_Reconstruction ==
    (script \in {"santa_clara", "solano_v3"} /\ ReturnedChunks /\ ValidConfig)
        => NonWhitespace(Rebuilt(ck.chunks, ck.overlap)) = NonWhitespace(ck.text)

\* the last n characters of t (all of t when it is shorter)
LastChars(t, n) == PySlice(t, Max(Len(t) - n, 0), Len(t))

\* C17: for 0 <= overlap < chunk_size, every chunk after the first starts
\* `overlap` characters before the end of the chunk before it, and the last
\* `overlap` characters of a chunk are the first `overlap` characters of the
\* next.  (import_santa_clara, ingest_to_supabase)
C17_OverlapContinuity ==
    (script \in {"santa_clara", "ingest_to_supabase"} /\ ck.pc = "returned"
       /\ ValidConfig)
        => \A k \in 1..(Len(ck.chunks) - 1) :
              /\ ck.spans[k + 1].start = ck.spans[k].end - ck.overlap
              /\ LastChars(ck.chunks[k], ck.overlap)
                    = PySlice(ck.chunks[k + 1], 0, ck.overlap)

\* ------------------------------------------------------------------------
\* categorize_protocol (import_santa_clara.py, ingest_solano_v3.py)
\* ------------------------------------------------------------------------
UpperCase == <<"A", "B", "C", "D", "E", "F", "G", "H", "I", "J", "K", "L", "M", "N", "O", "P", "Q", "R", "S", "T", "U", "V", "W", "X", "Y", "Z">>
LowerCase == <<"a", "b", "c", "d", "e", "f", "g", "h", "i", "j", "k", "l", "m", "n", "o", "p", "q", "r", "s", "t", "u", "v", "w", "x", "y", "z">>

\* str.lower(), on the letters A-Z
Lower(t) ==
    [k \in 1..Len(t) |->
        IF \E n \in 1..26 : UpperCase[n] = t[k]
        THEN LowerCase[CHOOSE n \in 1..26 : UpperCase[n] = t[k]]
        ELSE t[k]]

\* str.split(sep) for a separator of one character
RECURSIVE Split(_, _)
Split(s, sep) ==
    IF \A k \in 1..Len(s) : s[k] # sep THEN <<s>>
    ELSE LET k == CHOOSE n \in 1..Len(s) :
                     s[n] = sep /\ \A m \in 1..(n - 1) : s[m] # sep
         IN  <<SubSeq(s, 1, k - 1)>> \o Split(SubSeq(s, k + 1, Len(s)), sep)

\* the keyword tests of import_santa_clara.categorize_protocol, in the order
\* of its if statements
KeywordGroupsSantaClara ==
    <<
     [group |-> "cardiac",
      label |-> <<"C", "a", "r", "d", "i", "a", "c">>,
      keywords |-> {<<"c", "a", "r", "d", "i", "a", "c">>,
                    <<"a", "r", "r", "e", "s", "t">>,
                    <<"s", "t", "e", "m", "i">>,
                    <<"c", "p", "r">>,
                    <<"a", "e", "d">>}],
     [group |-> "trauma",
      label |-> <<"T", "r", "a", "u", "m", "a">>,
      keywords |-> {<<"t", "r", "a", "u", "m", "a">>,
                    <<"i", "n", "j", "u", "r", "y">>,
                    <<"h", "e", "m", "o", "r", "r", "h", "a", "g", "e">>,
                    <<"b", "l", "e", "e", "d", "i", "n", "g">>,
                    <<"c", "r", "u", "s", "h">>,
                    <<"b", "u", "r", "n", "s">>}],
     [group |-> "pediatric",
      label |-> <<"P", "e", "d", "i", "a", "t", "r", "i", "c">>,
      keywords |-> {<<"p", "e", "d", "i", "a", "t", "r", "i", "c">>,
                    <<"c", "h", "i", "l", "d">>,
                    <<"i", "n", "f", "a", "n", "t">>,
                    <<"n", "e", "o", "n", "a", "t", "e">>,
                    <<"n", "e", "o", "n", "a", "t", "a", "l">>}],
     [group |-> "respiratory",
      label |-> <<"R", "e", "s", "p", "i", "r", "a", "t", "o", "r", "y">>,
      keywords |-> {<<"a", "i", "r", "w", "a", "y">>,
                    <<"r", "e", "s", "p", "i", "r", "a", "t", "o", "r", "y">>,
                    <<"b", "r", "e", "a", "t", "h", "i", "n", "g">>,
                    <<"i", "n", "t", "u", "b", "a", "t">>,
                    <<"a", "s", "t", "h", "m", "a">>,
                    <<"c", "o", "p", "d">>}],
     [group |-> "neurological",
      label |-> <<"N", "e", "u", "r", "o", "l", "o", "g", "i", "c", "a", "l">>,
      keywords |-> {<<"s", "t", "r", "o", "k", "e">>,
                    <<"s", "e", "i", "z", "u", "r", "e">>,
                    <<"n", "e", "u", "r", "o", "l", "o", "g">>,
                    <<"a", "l", "t", "e", "r", "e", "d", " ", "m", "e", "n", "t", "a", "l">>,
                    <<"s", "y", "n", "c", "o", "p", "e">>}],
     [group |-> "toxicology",
      label |-> <<"T", "o", "x", "i", "c", "o", "l", "o", "g", "y">>,
      keywords |-> {<<"o", "v", "e", "r", "d", "o", "s", "e">>,
                    <<"p", "o", "i", "s", "o", "n">>,
                    <<"t", "o", "x", "i", "c">>,
                    <<"n", "a", "r", "c", "a", "n">>}],
     [group |-> "obstetric",
      label |-> <<"O", "B", "/", "G", "Y", "N">>,
      keywords |-> {<<"p", "r", "e", "g", "n", "a", "n", "c", "y">>,
                    <<"c", "h", "i", "l", "d", "b", "i", "r", "t", "h">>,
                    <<"o", "b", "s", "t", "e", "t", "r", "i", "c">>,
                    <<"l", "a", "b", "o", "r">>,
                    <<"o", "b", "/", "g", "y", "n">>,
                    <<"d", "e", "l", "i", "v", "e", "r", "y">>}],
     [group |-> "behavioral",
      label |-> <<"B", "e", "h", "a", "v", "i", "o", "r", "a", "l">>,
      keywords |-> {<<"b", "e", "h", "a", "v", "i", "o", "r", "a", "l">>,
                    <<"p", "s", "y", "c", "h", "i", "a", "t", "r", "i", "c">>,
                    <<"a", "g", "i", "t", "a", "t">>,
                    <<"5", "1", "5", "0">>,
                    <<"m", "e", "n", "t", "a", "l", " ", "h", "e", "a", "l", "t", "h">>}],
     [group |-> "environmental",
      label |-> <<"E", "n", "v", "i", "r", "o", "n", "m", "e", "n", "t", "a", "l">>,
      keywords |-> {<<"b", "u", "r", "n">>,
                    <<"h", "y", "p", "e", "r", "t", "h", "e", "r", "m", "i", "a">>,
                    <<"h", "y", "p", "o", "t", "h", "e", "r", "m", "i", "a">>,
                    <<"e", "n", "v", "i", "r", "o", "n", "m", "e", "n", "t", "a", "l">>,
                    <<"d", "r", "o", "w", "n", "i", "n", "g">>}]
    >>

\* the keyword tests of ingest_solano_v3.categorize_protocol, in the order of
\* its if statements
KeywordGroupsSolanoV3 ==
    <<
     [group |-> "cardiac",
      label |-> <<"C", "a", "r", "d", "i", "a", "c">>,
      keywords |-> {<<"c", "a", "r", "d", "i", "a", "c">>,
                    <<"a", "r", "r", "e", "s", "t">>,
                    <<"s", "t", "e", "m", "i">>,
                    <<"c", "p", "r">>,
                    <<"a", "e", "d">>}],
     [group |-> "trauma",
      label |-> <<"T", "r", "a", "u", "m", "a">>,
      keywords |-> {<<"t", "r", "a", "u", "m", "a">>,
                    <<"i", "n", "j", "u", "r", "y">>,
                    <<"h", "e", "m", "o", "r", "r", "h", "a", "g", "e">>,
                    <<"b", "u", "r", "n">>}],
     [group |-> "pediatric",
      label |-> <<"P", "e", "d", "i", "a", "t", "r", "i", "c">>,
      keywords |-> {<<"p", "e", "d", "i", "a", "t", "r", "i", "c">>,
                    <<"c", "h", "i", "l", "d">>,
                    <<"i", "n", "f", "a", "n", "t">>,
                    <<"n", "e", "o", "n", "a", "t", "e">>}],
     [group |-> "respiratory",
      label |-> <<"R", "e", "s", "p", "i", "r", "a", "t", "o", "r", "y">>,
      keywords |-> {<<"a", "i", "r", "w", "a", "y">>,
                    <<"r", "e", "s", "p", "i", "r", "a", "t", "o", "r", "y">>,
                    <<"b", "r", "e", "a", "t", "h", "i", "n", "g">>,
                    <<"i", "n", "t", "u", "b", "a", "t">>}],
     [group |-> "neurological",
      label |-> <<"N", "e", "u", "r", "o", "l", "o", "g", "i", "c", "a", "l">>,
      keywords |-> {<<"s", "t", "r", "o", "k", "e">>,
                    <<"s", "e", "i", "z", "u", "r", "e">>,
                    <<"n", "e", "u", "r", "o", "l", "o", "g">>,
                    <<"a", "l", "t", "e", "r", "e", "d", " ", "m", "e", "n", "t", "a", "l">>}],
     [group |-> "toxicology",
      label |-> <<"T", "o", "x", "i", "c", "o", "l", "o", "g", "y">>,
      keywords |-> {<<"o", "v", "e", "r", "d", "o", "s", "e">>,
                    <<"p", "o", "i", "s", "o", "n">>,
                    <<"t", "o", "x", "i", "c">>}],
     [group |-> "behavioral",
      label |-> <<"B", "e", "h", "a", "v", "i", "o", "r", "a", "l">>,
      keywords |-> {<<"b", "e", "h", "a", "v", "i", "o", "r", "a", "l">>,
                    <<"p", "s", "y", "c", "h", "i", "a", "t", "r", "i", "c">>,
                    <<"m", "e", "n", "t", "a", "l", " ", "h", "e", "a", "l", "t", "h">>}],
     [group |-> "obstetric",
      label |-> <<"O", "b", "s", "t", "e", "t", "r", "i", "c", "s">>,
      keywords |-> {<<"o", "b", "s", "t", "e", "t", "r", "i", "c">>,
                    <<"p", "r", "e", "g", "n", "a", "n", "c", "y">>,
                    <<"l", "a", "b", "o", "r">>,
                    <<"d", "e", "l", "i", "v", "e", "r", "y">>}],
     [group |-> "environmental",
      label |-> <<"E", "n", "v", "i", "r", "o", "n", "m", "e", "n", "t", "a", "l">>,
      keywords |-> {<<"e", "n", "v", "i", "r", "o", "n", "m", "e", "n", "t">>,
                    <<"h", "e", "a", "t">>,
                    <<"c", "o", "l", "d">>,
                    <<"d", "r", "o", "w", "n", "i", "n", "g">>}],
     [group |-> "procedures",
      label |-> <<"P", "r", "o", "c", "e", "d", "u", "r", "e", "s">>,
      keywords |-> {<<"p", "r", "o", "c", "e", "d", "u", "r", "e">>}],
     [group |-> "policies",
      label |-> <<"P", "o", "l", "i", "c", "i", "e", "s">>,
      keywords |-> {<<"p", "o", "l", "i", "c", "y">>,
                    <<"p", "o", "l", "i", "c", "i", "e", "s">>}],
     [group |-> "assessment",
      label |-> <<"A", "s", "s", "e", "s", "s", "m", "e", "n", "t">>,
      keywords |-> {<<"a", "s", "s", "e", "s", "s", "m", "e", "n", "t">>}]
    >>

\* the label import_santa_clara returns for a section 700 protocol without
\* a keyword
ClinicalGeneral == <<"C", "l", "i", "n", "i", "c", "a", "l", " ", "-", " ", "G", "e", "n", "e", "r", "a", "l">>

\* the last fallback of both functions
General == <<"G", "e", "n", "e", "r", "a", "l">>

\* if protocol_num.startswith(d): return label
PrefixLabels ==
    <<
     [prefix |-> <<"1">>, label |-> <<"A", "d", "m", "i", "n", "i", "s", "t", "r", "a", "t", "i", "v", "e">>],
     [prefix |-> <<"2">>, label |-> <<"P", "e", "r", "s", "o", "n", "n", "e", "l">>],
     [prefix |-> <<"3">>, label |-> <<"S", "y", "s", "t", "e", "m", " ", "P", "r", "o", "v", "i", "d", "e", "r", "s">>],
     [prefix |-> <<"4">>, label |-> <<"F", "a", "c", "i", "l", "i", "t", "i", "e", "s">>],
     [prefix |-> <<"5">>, label |-> <<"C", "o", "m", "m", "u", "n", "i", "c", "a", "t", "i", "o", "n", "s">>],
     [prefix |-> <<"6">>, label |-> <<"O", "p", "e", "r", "a", "t", "i", "o", "n", "s">>],
     [prefix |-> <<"8">>, label |-> <<"R", "e", "f", "e", "r", "e", "n", "c", "e", " ", "M", "a", "t", "e", "r", "i", "a", "l", "s">>],
     [prefix |-> <<"9">>, label |-> <<"F", "o", "r", "m", "s">>]
    >>

\* the label of the first test of the chain that finds one of its keywords
\* in lower; <<>> when no test does
RECURSIVE FirstMatch(_, _)
FirstMatch(groups, lower) ==
    IF groups = <<>> THEN <<>>
    ELSE IF \E k \in Head(groups).keywords : Contains(lower, k)
    THEN Head(groups).label
    ELSE FirstMatch(Tail(groups), lower)

\* the label of the first prefix test that holds; <<>> when none does
RECURSIVE FirstPrefix(_, _)
FirstPrefix(prefixes, protocol_num) ==
    IF prefixes = <<>> THEN <<>>
    ELSE IF StartsWith(protocol_num, Head(prefixes).prefix)
    THEN Head(prefixes).label
    ELSE FirstPrefix(Tail(prefixes), protocol_num)

\* import_santa_clara.categorize_protocol(protocol_num, title, content)
categorize_protocol_santa_clara(protocol_num, title, content) ==
    LET lower == Lower(title \o <<SP>> \o content)
        byKeyword == FirstMatch(KeywordGroupsSantaClara, lower)
        byPrefix == FirstPrefix(PrefixLabels, protocol_num)
    IN  IF StartsWith(protocol_num, <<"7">>)
        THEN (IF byKeyword # <<>> THEN byKeyword ELSE ClinicalGeneral)
        ELSE IF byPrefix # <<>> THEN byPrefix
        ELSE General

\* ingest_solano_v3.categorize_protocol(doc_name, category_path)
categorize_protocol_solano_v3(doc_name, category_path) ==
    LET lower == Lower(doc_name \o <<SP>> \o category_path)
        byKeyword == FirstMatch(KeywordGroupsSolanoV3, lower)
        parts == Split(category_path, "/")
    IN  IF byKeyword # <<>> THEN byKeyword
        ELSE IF Len(parts) > 1
        THEN (IF parts[2] # <<>> THEN parts[2] ELSE General)
        ELSE General

\* protocol numbers, titles, contents and category paths the functions are
\* called with
ProtocolNums == {<<>>, <<"1", "0", "6">>, <<"7", "0", "0">>, <<"2", "0", "5">>, <<"8", "1", "0">>, <<"X", "1">>}

Titles ==
    {<<>>,
     <<"C", "a", "r", "d", "i", "a", "c", " ", "A", "r", "r", "e", "s", "t">>,
     <<"S", "t", "r", "o", "k", "e", " ", "S", "e", "i", "z", "u", "r", "e">>,
     <<"P", "s", "y", "c", "h", "i", "a", "t", "r", "i", "c", " ", "L", "a", "b", "o", "r">>,
     <<"B", "u", "r", "n", " ", "C", "a", "r", "e">>,
     <<"P", "o", "l", "i", "c", "y", " ", "M", "e", "m", "o">>,
     <<"I", "n", "t", "a", "k", "e", " ", "F", "o", "r", "m">>,
     <<"C", "h", "i", "l", "d", "b", "i", "r", "t", "h">>}

Contents ==
    {<<>>,
     <<"o", "v", "e", "r", "d", "o", "s", "e">>,
     <<"r", "u", "l", "e", "s">>}

CategoryPaths ==
    {<<>>,
     <<"R", "o", "o", "t">>,
     <<"R", "o", "o", "t", "/", "F", "o", "o">>,
     <<"R", "o", "o", "t", "/">>,
     <<"P", "r", "o", "t", "o", "c", "o", "l", "s", "/", "T", "r", "a", "u", "m", "a", "/", "A", "d", "u", "l", "t">>,
     <<"/">>}

\* categorize_protocol is called
CategorizerInit ==
    /\ script \in {"santa_clara", "solano_v3"}
    /\ store = EmptyBag
    /\ pc = "idle"
    /\ pdf_backend = "none"
    /\ ck = NoCall
    /\ pf = NoParse
    /\ slept = FALSE
    /\ docs = <<>>
    /\ docIdx = 1
    /\ all_chunks = <<>>
    /\ protocols_processed = 0
    /\ i = 0
    /\ embeddings = <<>>
    /\ inserted = 0
    /\ errors = 0
    /\ reqlog = <<>>
    /\ storeAtStart = store
    /\ prevRun = NoRun
    /\ \/ /\ script = "santa_clara"
          /\ \E n \in ProtocolNums, t \in Titles, c \in Contents :
                cat = [NoCategorize EXCEPT !.pc = "called", !.protocol_num = n,
                                           !.title = t, !.content = c]
       \/ /\ script = "solano_v3"
          /\ \E t \in Titles, p \in CategoryPaths :
                cat = [NoCategorize EXCEPT !.pc = "called", !.title = t,
                                           !.category_path = p]

\* the call returns its label
Categorize ==
    /\ cat.pc = "called"
    /\ cat' = [cat EXCEPT
                 !.pc = "returned",
                 !.label = IF script = "santa_clara"
                           THEN categorize_protocol_santa_clara(
                                    cat.protocol_num, cat.title, cat.content)
                           ELSE categorize_protocol_solano_v3(
                                    cat.title, cat.category_path)]
    /\ UNCHANGED <<script, pf, slept, store, pc, pdf_backend, ck, docs, docIdx, all_chunks,
                   protocols_processed, i, embeddings, inserted, errors, reqlog,
                   storeAtStart, prevRun>>

CategorizerNext == Categorize

CategorizerSpec == CategorizerInit /\ [][CategorizerNext]_vars

\* the text the keyword tests look at
CategorizerText ==
    IF script = "santa_clara" THEN Lower(cat.title \o <<SP>> \o cat.content)
    ELSE Lower(cat.title \o <<SP>> \o cat.category_path)

\* the keyword tests of the script that runs
KeywordGroups ==
    IF script = "santa_clara" THEN KeywordGroupsSantaClara ELSE KeywordGroupsSolanoV3

\* the fixed taxonomy ('Obstetrics' and 'OB/GYN' are the two spellings of
\* the obstetric label, 'Clinical - General' that of Clinical-General)
Taxonomy ==
    {<<"C", "a", "r", "d", "i", "a", "c">>,
     <<"T", "r", "a", "u", "m", "a">>,
     <<"P", "e", "d", "i", "a", "t", "r", "i", "c">>,
     <<"R", "e", "s", "p", "i", "r", "a", "t", "o", "r", "y">>,
     <<"N", "e", "u", "r", "o", "l", "o", "g", "i", "c", "a", "l">>,
     <<"T", "o", "x", "i", "c", "o", "l", "o", "g", "y">>,
     <<"O", "b", "s", "t", "e", "t", "r", "i", "c", "s">>,
     <<"O", "B", "/", "G", "Y", "N">>,
     <<"B", "e", "h", "a", "v", "i", "o", "r", "a", "l">>,
     <<"E", "n", "v", "i", "r", "o", "n", "m", "e", "n", "t", "a", "l">>,
     <<"P", "r", "o", "c", "e", "d", "u", "r", "e", "s">>,
     <<"P", "o", "l", "i", "c", "i", "e", "s">>,
     <<"A", "s", "s", "e", "s", "s", "m", "e", "n", "t">>,
     <<"A", "d", "m", "i", "n", "i", "s", "t", "r", "a", "t", "i", "v", "e">>,
     <<"P", "e", "r", "s", "o", "n", "n", "e", "l">>,
     <<"S", "y", "s", "t", "e", "m", " ", "P", "r", "o", "v", "i", "d", "e", "r", "s">>,
     <<"F", "a", "c", "i", "l", "i", "t", "i", "e", "s">>,
     <<"C", "o", "m", "m", "u", "n", "i", "c", "a", "t", "i", "o", "n", "s">>,
     <<"O", "p", "e", "r", "a", "t", "i", "o", "n", "s">>,
     <<"R", "e", "f", "e", "r", "e", "n", "c", "e", " ", "M", "a", "t", "e", "r", "i", "a", "l", "s">>,
     <<"F", "o", "r", "m", "s">>,
     <<"C", "l", "i", "n", "i", "c", "a", "l", " ", "-", " ", "G", "e", "n", "e", "r", "a", "l">>,
     <<"G", "e", "n", "e", "r", "a", "l">>}

\* C18: categorize_protocol returns a label of the fixed taxonomy for every
\* combination of inputs, empty strings and unknown paths included.
C18_LabelInTaxonomy == cat.pc = "returned" => cat.label \in Taxonomy

\* the order in which the keyword groups are to be tested
FixedOrder ==
    <<"cardiac", "trauma", "pediatric", "respiratory", "neurological",
      "toxicology", "obstetric", "behavioral", "environmental", "procedures",
      "policies", "assessment">>

\* the groups of a chain, put in the fixed order
InFixedOrder(groups) ==
    LET has(g) == \E k \in 1..Len(groups) : groups[k].group = g
        present == SelectSeq(FixedOrder, has)
    IN  [k \in 1..Len(present) |->
            groups[CHOOSE j \in 1..Len(groups) : groups[j].group = present[k]]]

\* C19: when a keyword group matches the text, the label returned is that
\* of the first matching group in the order cardiac, trauma, pediatric,
\* respiratory, neurological, toxicology, obstetric, behavioral,
\* environmental, procedures, policies, assessment.  (For import_santa_clara
\* the protocols of section 700, on which its keyword tests run.)
C19_FixedPriorityOrder ==
    (cat.pc = "returned"
       /\ (script = "santa_clara" => StartsWith(cat.protocol_num, <<"7">>)))
        => LET first == FirstMatch(InFixedOrder(KeywordGroups), CategorizerText)
           IN  first # <<>> => cat.label = first

\* C20: in import_santa_clara a document whose title or content matches a
\* keyword group gets that group's label whatever the leading digit of its
\* protocol number, and only without a match does a leading digit 1-6, 8 or
\* 9 give its administrative label.
C20_PrefixIsFallback ==
    (cat.pc = "returned" /\ script = "santa_clara")
        => LET byKeyword == FirstMatch(KeywordGroupsSantaClara, CategorizerText)
               byPrefix == FirstPrefix(PrefixLabels, cat.protocol_num)
           IN  /\ byKeyword # <<>> => cat.label = byKeyword
               /\ (byKeyword = <<>> /\ byPrefix # <<>>) => cat.label = byPrefix

\* ------------------------------------------------------------------------
\* The name parsers (import_santa_clara.parse_filename,
\* ingest_solano_v3.extract_protocol_number)
\* ------------------------------------------------------------------------
\* re.search(r'^([A-Z]-?\d{3,})', doc_name): group 1, <<>> without a match
LetterCode(doc_name) ==
    IF doc_name = <<>> \/ Head(doc_name) \notin UpperChars THEN <<>>
    ELSE LET rest == Tail(doc_name)
             hyphen == rest # <<>> /\ Head(rest) = "-"
             nd == RunLen(IF hyphen THEN Tail(rest) ELSE rest, DigitChars)
         IN  IF nd >= 3 THEN SubSeq(doc_name, 1, 1 + (IF hyphen THEN 1 ELSE 0) + nd)
             ELSE <<>>

\* re.search(r'^(\d{3,}[-.]?\d*)', doc_name): group 1, <<>> without a match
DigitCode(doc_name) ==
    LET nd == RunLen(doc_name, DigitChars)
        after == SubSeq(doc_name, nd + 1, Len(doc_name))
        more == IF after # <<>> /\ Head(after) \in {"-", "."}
                THEN 1 + RunLen(Tail(after), DigitChars) ELSE 0
    IN  IF nd >= 3 THEN SubSeq(doc_name, 1, nd + more) ELSE <<>>

\* re.search(r'\[([A-Z0-9-]+)\]', doc_name): group 1 of the leftmost match,
\* <<>> without a match
BracketCode(doc_name) ==
    LET cs == UpperChars \cup DigitChars \cup {"-"}
        run(k) == RunLen(SubSeq(doc_name, k + 1, Len(doc_name)), cs)
        hits == {k \in 1..Len(doc_name) :
                    /\ doc_name[k] = "["
                    /\ run(k) >= 1
                    /\ k + run(k) + 1 <= Len(doc_name)
                    /\ doc_name[k + run(k) + 1] = "]"}
    IN  IF hits = {} THEN <<>>
        ELSE LET k == CHOOSE x \in hits : \A y \in hits : x <= y
             IN  SubSeq(doc_name, k + 1, k + run(k))

\* ingest_solano_v3.extract_protocol_number(doc_name, short_name)
extract_protocol_number(doc_name, short_name) ==
    IF short_name # <<>> THEN PySlice(short_name, 0, 50)
    ELSE IF LetterCode(doc_name) # <<>> THEN PySlice(LetterCode(doc_name), 0, 50)
    ELSE IF DigitCode(doc_name) # <<>> THEN PySlice(DigitCode(doc_name), 0, 50)
    ELSE IF BracketCode(doc_name) # <<>> THEN PySlice(BracketCode(doc_name), 0, 50)
    ELSE Replace(PySlice(doc_name, 0, 20), <<SP>>, <<"-">>)

\* the parts file names are made of: numeric codes, separator runs of
\* underscores, hyphens and spaces, titles
Codes == {<<"1", "0", "6">>, <<"7">>}

SeparatorRuns ==
    {<<"_", "-", "_">>,
     <<"_">>,
     <<"-">>,
     <<" ">>,
     <<"_", "_">>,
     <<"-", " ">>,
     <<" ", "-", " ">>}

NameTitles ==
    {<<"P", "E", "R", "S", "O", "N", "N", "E", "L", "_", "I", "N", "V", "E", "S", "T", "I", "G", "A", "T", "I", "O", "N", "_", "A", "N", "D", "_", "D", "I", "S", "C", "I", "P", "L", "I", "N", "E">>,
     <<"M", "e", "m", "o">>,
     <<"x", "_", "y">>}

PdfExt == <<".", "p", "d", "f">>

\* file names of the PDF directory: code, separator run, title, .pdf; and
\* names without a code
FileNames ==
    {c \o sep \o t \o PdfExt : c \in Codes, sep \in SeparatorRuns, t \in NameTitles}
        \cup {<<"R", "E", "A", "D", "M", "E", ".", "p", "d", "f">>,
              <<"A", "_", "B", ".", "p", "d", "f">>,
              <<"M", "e", "m", "o", " ", "7", ".", "p", "d", "f">>,
              <<".", "p", "d", "f">>,
              <<>>}

\* long_name and short_name of the documents of the Solano snapshot
DocNames ==
    {<<>>,
     <<"G", "e", "n", "e", "r", "a", "l", " ", "M", "e", "m", "o">>,
     <<"A", "-", "1", "2", "3", "4", " ", "A", "i", "r", "w", "a", "y">>,
     <<"5", "1", "0", "0", ".", "2", " ", "P", "o", "l", "i", "c", "y">>,
     <<"M", "e", "m", "o", " ", "[", "B", "L", "S", "-", "7", "]">>,
     <<"1", "2", " ", "L", "e", "a", "d", "s">>,
     <<"A", "_", "B">>}

ShortNames == {<<>>, <<"P", "-", "1">>}

\* the parser is called
ParserInit ==
    /\ script \in {"santa_clara", "solano_v3"}
    /\ store = EmptyBag
    /\ pc = "idle"
    /\ pdf_backend = "none"
    /\ ck = NoCall
    /\ cat = NoCategorize
    /\ slept = FALSE
    /\ docs = <<>>
    /\ docIdx = 1
    /\ all_chunks = <<>>
    /\ protocols_processed = 0
    /\ i = 0
    /\ embeddings = <<>>
    /\ inserted = 0
    /\ errors = 0
    /\ reqlog = <<>>
    /\ storeAtStart = store
    /\ prevRun = NoRun
    /\ \/ /\ script = "santa_clara"
          /\ \E f \in FileNames : pf = [NoParse EXCEPT !.pc = "called", !.name = f]
       \/ /\ script = "solano_v3"
          /\ \E n \in DocNames, sn \in ShortNames :
                pf = [NoParse EXCEPT !.pc = "called", !.name = n, !.short_name = sn]

\* protocol number and protocol title main puts in the chunk records:
\* parse_filename(pdf_path.name) (import_santa_clara), or
\* extract_protocol_number(doc_name, short_name) and doc_name[:255]
\* (ingest_solano_v3)
ParseName ==
    /\ pf.pc = "called"
    /\ pf' = IF script = "santa_clara"
             THEN [pf EXCEPT !.pc = "returned",
                             !.number = parse_filename(pf.name)[1],
                             !.title = parse_filename(pf.name)[2]]
             ELSE [pf EXCEPT !.pc = "returned",
                             !.number = extract_protocol_number(pf.name, pf.short_name),
                             !.title = PySlice(pf.name, 0, TITLE_LIMIT)]
    /\ UNCHANGED <<script, store, pc, pdf_backend, ck, cat, slept, docs, docIdx,
                   all_chunks, protocols_processed, i, embeddings, inserted,
                   errors, reqlog, storeAtStart, prevRun>>

ParserNext == ParseName

ParserSpec == ParserInit /\ [][ParserNext]_vars

\* C21: a file name made of a numeric code, a separator run of underscores,
\* hyphens and spaces, a title and .pdf is parsed into the code alone and the
\* title with its underscores turned into spaces.
C21_CodeAndTitle ==
    (pf.pc = "returned" /\ script = "santa_clara" /\ pf.short_name = <<>>)
        => \A c \in Codes, sep \in SeparatorRuns, t \in NameTitles :
              pf.name = c \o sep \o t \o PdfExt
                  => /\ pf.number = c
                     /\ pf.title = Replace(t, <<"_">>, <<SP>>)

\* the document name: the file name without its extension (import_santa_clara),
\* the long name (ingest_solano_v3)
DocumentName ==
    IF script = "santa_clara" /\ Len(pf.name) >= 4
         /\ SubSeq(pf.name, Len(pf.name) - 3, Len(pf.name)) = PdfExt
    THEN SubSeq(pf.name, 1, Len(pf.name) - 4)
    ELSE pf.name

\* C22: the parser returns a (number, title) pair for every name, and for a
\* name from which no code can be isolated (here: a name without any digit),
\* no short name being supplied, the number is 'Unknown' and the title is
\* the whole name with underscores replaced by spaces.
C22_UnknownSentinel ==
    pf.pc = "returned"
        => /\ pf.number \in Seq(STRING) /\ pf.title \in Seq(STRING)
           /\ (pf.short_name = <<>> /\ \A k \in 1..Len(pf.name) : pf.name[k] \notin DigitChars)
                => /\ pf.number = Unknown
                   /\ pf.title = Replace(DocumentName, <<"_">>, <<SP>>)

\* C23: chunk_text stops at the window whose end reaches or passes the end
\* of the text: the chunk of that window is the last one returned, and no
\* returned chunk lies inside the text covered by the chunk before it.
C23_StopsAtTextEnd ==
    (ck.pc = "returned" /\ ValidConfig)
        => \A k \in 1..(Len(ck.spans) - 1) :
              /\ ck.spans[k].end < Len(ck.text)
              /\ ck.spans[k + 1].end > ck.spans[k].end

\* offsets beyond the halfway point at which sep occurs in the window
\* text[start:start + chunk_size]
LateBreaks(start, sep) ==
    LET w == PySlice(ck.text, start, start + ck.chunk_size)
    IN  {p \in 0..Len(w) : OccursAt(w, sep, p) /\ p > ck.chunk_size \div 2}

LateSentenceEnds(start) ==
    UNION {LateBreaks(start, SentenceSeps[n]) : n \in 1..Len(SentenceSeps)}

SetMax(S) == CHOOSE x \in S : \A y \in S : y <= x

\* C24: in import_santa_clara a window that ends before the end of the text
\* is closed right after its last paragraph break beyond the halfway point;
\* failing that right after a sentence terminator beyond the halfway point;
\* failing that right after the last space beyond the halfway point; failing
\* that at start + chunk_size.
C24_BreakPriority ==
    (script = "santa_clara" /\ ValidConfig)
        => \A k \in 1..Len(ck.spans) :
              LET start == ck.spans[k].start
                  end == ck.spans[k].end
              IN  start + ck.chunk_size < Len(ck.text)
                    => IF LateBreaks(start, ParaSep) # {}
                       THEN end = start + SetMax(LateBreaks(start, ParaSep)) + 2
                       ELSE IF LateSentenceEnds(start) # {}
                       THEN end - start - 2 \in LateSentenceEnds(start)
                       ELSE IF LateBreaks(start, <<SP>>) # {}
                       THEN end = start + SetMax(LateBreaks(start, <<SP>>)) + 1
                       ELSE end = start + ck.chunk_size

\* C24 witness: a returned call of import_santa_clara.chunk_text has closed
\* a window right after a sentence terminator although a later space of the
\* window lay beyond the halfway point too.
C24_Witness ==
    /\ script = "santa_clara" /\ ValidConfig /\ ck.pc = "returned"
    /\ \E k \in 1..Len(ck.spans) :
          LET start == ck.spans[k].start
          IN  /\ start + ck.chunk_size < Len(ck.text)
              /\ LateBreaks(start, ParaSep) = {}
              /\ LateSentenceEnds(start) # {}
              /\ LateBreaks(start, <<SP>>) # {}
              /\ ck.spans[k].end < start + SetMax(LateBreaks(start, <<SP>>)) + 1

\* the step issues an embedding request
EmbedRequested ==
    /\ Len(reqlog') = Len(reqlog) + 1
    /\ reqlog'[Len(reqlog')].op = "embed"

\* C25: between two consecutive embedding requests of a run there is a
\* rate-limit pause, whether the earlier batch succeeded or failed
\* (import_santa_clara, ingest_solano_v3).
C25_PauseBetweenRequests ==
    [][(script \in {"santa_clara", "solano_v3"} /\ EmbedRequested /\ EmbedCalls # <<>>)
          => slept]_vars

\* C26: in a run that returned with every call successful, distinct chunk
\* records have distinct identity keys and every chunk record the run
\* created is a row of the store: none was overwritten by another
\* (import_santa_clara, ingest_to_supabase).
C26_DistinctKeys ==
    (script \in {"santa_clara", "ingest_to_supabase"} /\ RunReturned /\ AllCallsOk(reqlog))
        => /\ \A j, k \in 1..Len(all_chunks) :
                 j # k => all_chunks[j].chunk_id # all_chunks[k].chunk_id
           /\ reqlog # <<>> => \A k \in 1..Len(all_chunks) : BagIn(all_chunks[k], store)

\* positions (1-based) of the chunks of the batch at offset at
BatchSlice(at) == (at + 1)..Min(at + ScaledBatch, Len(all_chunks))

\* positions of the chunks whose insert/upsert request the store accepted
AcceptedChunks ==
    {j \in 1..Len(all_chunks) :
        \E k \in LogIdx : reqlog[k].op = "upsert" /\ reqlog[k].ok
                            /\ j \in BatchSlice(reqlog[k].at)}

\* C27: at the end of a run that reached the batch loop, inserted + errors
\* is the number of chunks created and inserted is the number of records
\* the store accepted.
C27_RunAccounting ==
    (pc \in {"summary", "done"} /\ EmbedCalls # <<>>)
        => /\ inserted + errors = Len(all_chunks)
           /\ inserted = Cardinality(AcceptedChunks)

\* the step is a successful insert/upsert request
BatchStored ==
    /\ Len(reqlog') = Len(reqlog) + 1
    /\ reqlog'[Len(reqlog')].op = "upsert"
    /\ reqlog'[Len(reqlog')].ok

\* the insert/upsert requests of the log, in order
UpsertCalls == SelectSeq(reqlog, LAMBDA e : e.op = "upsert")

\* no other chunk record of the run has the key of record j
KeyUnshared(j) ==
    \A k \in 1..Len(all_chunks) :
        (k # j /\ all_chunks[j].chunk_id # NULL)
            => all_chunks[k].chunk_id # all_chunks[j].chunk_id

\* C28: the batches partition the chunk list -- the embedding requests are
\* issued once each at the offsets 0, BATCH_SIZE, 2*BATCH_SIZE, ... below
\* len(all_chunks), at the summary one for each offset; at most one
\* insert/upsert is issued per offset, after that offset's embedding
\* request; and a successful insert/upsert stores the chunks at positions
\* offset+1 .. min(offset + BATCH_SIZE, len(all_chunks)), all of them and
\* no other (a record overwritten by another of the same key aside).
C28_BatchesPartition ==
    /\ [](\A k \in 1..Len(EmbedCalls) :
             /\ EmbedCalls[k].at = (k - 1) * ScaledBatch
             /\ EmbedCalls[k].at < Len(all_chunks))
    /\ [](\A j, k \in 1..Len(UpsertCalls) :
             /\ j < k => UpsertCalls[j].at < UpsertCalls[k].at
             /\ \E e \in 1..Len(EmbedCalls) :
                   EmbedCalls[e].at = UpsertCalls[k].at /\ EmbedCalls[e].ok)
    /\ []((pc \in {"summary", "done"} /\ EmbedCalls # <<>>)
             => Len(EmbedCalls) = (Len(all_chunks) + ScaledBatch - 1) \div ScaledBatch)
    /\ [][BatchStored =>
             \A j \in 1..Len(all_chunks) :
                 LET new == CopiesIn(all_chunks[j], store') - CopiesIn(all_chunks[j], store)
                 IN  IF j \in BatchSlice(i)
                     THEN KeyUnshared(j) => BagIn(all_chunks[j], store')
                     ELSE (\A m \in BatchSlice(i) : all_chunks[m] # all_chunks[j])
                             => new <= 0]_vars

\* C28 witness: a run of two batches has reached its summary, the first
\* batch stored and the second one too.
C28_Witness ==
    /\ pc = "done"
    /\ Len(EmbedCalls) = 2
    /\ Len(UpsertCalls) = 2
    /\ AllCallsOk(reqlog)

\* A configuration ordered as the default ones are (1200 / 150 and
\* 1500 / 200, with the 50 character minimum of ingest_solano_v3): the
\* minimum chunk length is below the overlap, the overlap at most half the
\* chunk size.
LikeDefaults == ScaledMinChunk < ck.overlap /\ 2 * ck.overlap <= ck.chunk_size

\* position p (1-based) of the text lies in the window of a returned chunk
Covered(p) ==
    \E k \in 1..Len(ck.spans) : ck.spans[k].start < p /\ p <= ck.spans[k].end

\* C29: with a configuration like the default ones, every non-whitespace
\* character position of the cleaned-up text lies inside a returned chunk,
\* also in ingest_solano_v3, which discards short chunks.
C29_NoTextLost ==
    (ck.pc = "returned" /\ LikeDefaults)
        => \A p \in 1..Len(ck.text) : ck.text[p] \notin Whitespace => Covered(p)

\* C29 witness: ingest_solano_v3.chunk_text has returned at least two chunks
\* with such a configuration after discarding the chunk of one window.
C29_Witness ==
    /\ script = "solano_v3" /\ ck.pc = "returned" /\ LikeDefaults
    /\ Len(ck.chunks) >= 2
    /\ Cardinality(ck.visited) > Len(ck.chunks)

\* the step is one iteration of the carving loop
LoopIteration == ck.pc = "loop" /\ ck'.pc = "loop" /\ ck'.visited # ck.visited

\* overlap <= chunk_size // 2 + 1
ModerateOverlap == ck.overlap <= ck.chunk_size \div 2 + 1

\* C30, as stated: whenever overlap <= chunk_size // 2 + 1, every iteration
\* of the carving loop moves the window start up by at least
\* chunk_size // 2 + 2 - overlap (so by one at least), the loop never
\* stalls, start is never negative and the iterations number at most
\* len(text).
C30_StartAdvances ==
    /\ [][(LoopIteration /\ ModerateOverlap)
             => /\ ck'.start >= ck.start + ck.chunk_size \div 2 + 2 - ck.overlap
                /\ ck'.start > ck.start]_vars
    /\ [](ModerateOverlap
             => /\ ~Stalled
                /\ ck.start >= 0
                /\ Cardinality(ck.visited) <= Len(ck.text))

\* C30, amended: the same for a chunk size of three characters or more.
C30_StartAdvancesFromThree ==
    /\ [][(LoopIteration /\ ModerateOverlap /\ ck.chunk_size >= 3)
             => /\ ck'.start >= ck.start + ck.chunk_size \div 2 + 2 - ck.overlap
                /\ ck'.start > ck.start]_vars
    /\ []((ModerateOverlap /\ ck.chunk_size >= 3)
             => /\ ~Stalled
                /\ ck.start >= 0
                /\ Cardinality(ck.visited) <= Len(ck.text))

\* C30 witness: a call with chunk_size >= 3 and overlap = chunk_size // 2 + 1
\* has returned after three iterations or more.
C30_Witness ==
    /\ ck.pc = "returned"
    /\ ck.chunk_size >= 3
    /\ ck.overlap = ck.chunk_size \div 2 + 1
    /\ Cardinality(ck.visited) >= 3

====
